---------------------------- MODULE Spec2Model ----------------------------
(***************************************************************************)
(* Model of options.py: the Option contract constructor and the binomial   *)
(* (BinOption) and trinomial (TrinOption) lattice pricers.                 *)
(*                                                                         *)
(* Numbers.  Python floats are modelled as decimal fixed-point integers    *)
(* with FP units per 1.0 (0.09 is 900, 50 is 500000).  exp, sqrt and **    *)
(* are computed on that representation (series, integer root, repeated     *)
(* product), so they are approximations with an error of a few units.      *)
(* Dates are day ordinals (integers); datetime.strptime is outside the     *)
(* model.  A datetime is the fixed-point number of days date*FP, so that   *)
(* the fractional `day -= timedelta(days=tstep)` is representable.         *)
(* Python exceptions are modelled by pc = "error" and the err record.      *)
(***************************************************************************)
EXTENDS Integers, Sequences, FiniteSets, TLC

\* ------------------------------------------------------------------ bounds
MaxPeriods == 2      \* largest periods value an input dictionary carries
MaxDivs == 2         \* longest dividend list an input dictionary carries
MaxCalls == 2        \* number of value() calls made in one behaviour

\* --------------------------------------------------------- number modelling
FP == 10000          \* fixed-point units per 1.0
ExpTerms == 12       \* terms of the exponential series

Max2(a, b) == IF a >= b THEN a ELSE b

\* Python's max(a, b, c)
Max3(a, b, c) == Max2(Max2(a, b), c)

\* float product a*b: floor(a*b/FP), split so that no partial product overflows
Mult(a, b) ==
    (a \div FP) * b + (a % FP) * (b \div FP) + ((a % FP) * (b % FP)) \div FP

\* float quotient a/b for b > 0: floor(a*FP/b)
Div(a, b) == (a \div b) * FP + ((a % b) * FP) \div b

RECURSIVE ExpSeries(_, _, _, _)
ExpSeries(x, k, term, acc) ==
    IF k > ExpTerms THEN acc
    ELSE LET t == Mult(term, x) \div k
         IN  ExpSeries(x, k + 1, t, acc + t)

\* math.exp
exp(x) == ExpSeries(x, 1, FP, FP)

RECURSIVE ISqrt(_, _, _)
ISqrt(v, lo, hi) ==
    IF lo >= hi THEN lo
    ELSE LET mid == (lo + hi + 1) \div 2
         IN  IF mid * mid <= v THEN ISqrt(v, mid, hi) ELSE ISqrt(v, lo, mid - 1)

\* math.sqrt for x >= 0 (a negative argument raises ValueError, see SqrtFails)
sqrt(x) == ISqrt(x * FP, 0, 40000)

SqrtFails(x) == x < 0

RECURSIVE PowNat(_, _)
PowNat(b, n) == IF n = 0 THEN FP ELSE Mult(PowNat(b, n - 1), b)

\* float ** int
Pow(b, n) == IF n >= 0 THEN PowNat(b, n) ELSE Div(FP, PowNat(b, -n))

\* ----------------------------------------------------------------- helpers
\* discount(amt, days, rfr) = amt * exp(-rfr*(days/365.))
discount(amt, days, rfr) == Mult(amt, exp(Mult(-rfr, days \div 365)))

exercise_call(stock, strike) == stock - strike

exercise_put(stock, strike) == strike - stock

\* the function bound to the local name `exercise`
ApplyExercise(f, stock, strike) ==
    IF f = "exercise_call" THEN exercise_call(stock, strike)
    ELSE exercise_put(stock, strike)

\* ------------------------------------------------- binomial lattice params
high_mult(vola, tstep) == exp(Mult(vola, sqrt(tstep \div 365)))

\* u - d = 0 makes the quotient of high_p raise ZeroDivisionError
HighPFails(vola, tstep) ==
    LET u == high_mult(vola, tstep)
        d == Div(FP, u)
    IN  u - d = 0

high_p(rfr, vola, tstep) ==
    LET u == high_mult(vola, tstep)
        d == Div(FP, u)
    IN  Div(exp(Mult(rfr, tstep) \div 365) - d, u - d)

\* ------------------------------------------------ trinomial lattice params
tri_high_mult(vola, tstep) == exp(Mult(vola, sqrt((2 * tstep) \div 365)))

TriConst(vola, tstep) == Mult(vola, sqrt((tstep \div 365) \div 2))

TriDen(vola, tstep) == exp(TriConst(vola, tstep)) - exp(-TriConst(vola, tstep))

\* den = 0 makes num/den raise ZeroDivisionError
TriPFails(vola, tstep) == TriDen(vola, tstep) = 0

\* num may be negative: the quotient is taken on the magnitude, then squared
SignedDiv(a, b) == IF a >= 0 THEN Div(a, b) ELSE -Div(-a, b)

tri_high_p(rfr, vola, tstep) ==
    LET num == exp((Mult(rfr, tstep) \div 365) \div 2) - exp(-TriConst(vola, tstep))
        q   == SignedDiv(num, TriDen(vola, tstep))
    IN  Mult(q, q)

tri_low_p(rfr, vola, tstep) ==
    LET num == exp(TriConst(vola, tstep)) - exp((Mult(rfr, tstep) \div 365) \div 2)
        q   == SignedDiv(num, TriDen(vola, tstep))
    IN  Mult(q, q)


\* ------------------------------------------------------------------ inputs
Todays == {0}        \* info['today'], as a day ordinal
Expis == {360}       \* info['expi'], as a day ordinal

Classes == {"BinOption", "TrinOption"}
Types == {"call", "put", "straddle"}

\* price, strike, vola and rfr of the input: an ordinary market, a market whose
\* volatility is small against its rate (binomial p_up above 1, p_down below 0),
\* and a market without volatility
Markets ==
    {[price |-> 50 * FP, strike |-> 60 * FP, vola |-> 4000, rfr |-> 900],
     [price |-> 50 * FP, strike |-> 50 * FP, vola |-> 500, rfr |-> 900],
     [price |-> 50 * FP, strike |-> 60 * FP, vola |-> 0, rfr |-> 900]}

\* (date, amt) pairs an input list is built from: one dated on the valuation
\* date, one early and one late in the contract's life
DivPairs == {<<0, 1 * FP>>, <<90, 2 * FP>>, <<300, 3 * FP>>}

\* a dividend a caller adds to an already priced contract's input
ExtraDivs == {<<280, 2 * FP>>}

SeqsUpTo(S, n) == UNION {[1..k -> S] : k \in 0..n}

\* the input dictionaries: `keys` holds the optional keys that are present
Infos ==
    {[today |-> to, type |-> ty, price |-> mk.price, strike |-> mk.strike,
      vola |-> mk.vola, expi |-> ex, rfr |-> mk.rfr, divs |-> dv, periods |-> pe,
      keys |-> ks] :
        to \in Todays, ex \in Expis, ty \in Types, mk \in Markets,
        dv \in SeqsUpTo(DivPairs, MaxDivs), pe \in (-1)..MaxPeriods,
        ks \in SUBSET {"divs", "periods"}}

\* a dictionary stores nothing under an absent key
WellFormedInfo(d) ==
    /\ "divs" \notin d.keys => d.divs = <<>>
    /\ "periods" \notin d.keys => d.periods = 0

\* ------------------------------------------------------------------- state
VARIABLES
    cls,            \* the class instantiated: BinOption or TrinOption
    info,           \* the input dictionary handed to the constructor
    self,           \* the Option object's attributes
    pc,             \* new, ready, bin_node, trin_node, bin_ret, trin_ret, done, error
    err,            \* the exception that ended the run: name and source line
    ret,            \* the number value() returned
    calls,          \* completed value() calls
    prev,           \* the previously completed valuation, kept by the caller
    exercise, up, p_up, p_down, p_mid, pricetree, adj_price,
    day, cur_div_val, last_div, step, i,        \* locals of pricetree()
    written,        \* history: number of stores into each slot of pricetree
    reads,          \* history: child slots read, and whether already stored
    prices          \* history: the underlying price computed for each slot

vars == <<cls, info, self, pc, err, ret, calls, prev, exercise, up, p_up, p_down,
          p_mid, pricetree, adj_price, day, cur_div_val, last_div, step, i,
          written, reads, prices>>

locals == <<exercise, up, p_up, p_down, p_mid, pricetree, adj_price, day,
            cur_div_val, last_div, step, i, written, reads, prices>>

\* [0]*n: a list of n zeros, indexed from 0 (empty when n <= 0)
Alloc(n) == [k \in 0..(n - 1) |-> 0]

NoSelf == [today |-> 0, type |-> "", price |-> 0, strike |-> 0, vola |-> 0,
           expi |-> 0, rfr |-> 0, divs |-> <<>>, periods |-> 0, tstep |-> 0]

NoErr == [name |-> "", line |-> 0]

NoPrev == [how |-> "none", self |-> NoSelf, ret |-> 0]

Init ==
    /\ cls \in Classes
    /\ info \in {d \in Infos : WellFormedInfo(d)}
    /\ self = NoSelf
    /\ pc = "new"
    /\ err = NoErr
    /\ ret = 0
    /\ calls = 0
    /\ prev = NoPrev
    /\ exercise = "unbound"
    /\ up = 0 /\ p_up = 0 /\ p_down = 0 /\ p_mid = 0
    /\ pricetree = Alloc(0)
    /\ adj_price = 0
    /\ day = 0 /\ cur_div_val = 0 /\ last_div = 0 /\ step = 0 /\ i = 0
    /\ written = Alloc(0)
    /\ reads = {}
    /\ prices = Alloc(0)

Raise(name, line) ==
    /\ pc' = "error"
    /\ err' = [name |-> name, line |-> line]

\* ------------------------------------------------------- Option.__init__
\* variant: keeps a dividend dated on the valuation date as well
FilterAfterOrOn(divs, today) == SelectSeq(divs, LAMBDA div : div[1] >= today)

\* [div for div in divs if div[0] > today]
FilterAfter(divs, today) == SelectSeq(divs, LAMBDA div : div[1] > today)

\* x placed behind every element whose date is not later (list.sort is stable)
InsertByDate(s, x) ==
    LET k == Cardinality({j \in 1..Len(s) : s[j][1] <= x[1]})
    IN  SubSeq(s, 1, k) \o <<x>> \o SubSeq(s, k + 1, Len(s))

RECURSIVE SortFrom(_, _, _)
SortFrom(s, j, acc) ==
    IF j > Len(s) THEN acc ELSE SortFrom(s, j + 1, InsertByDate(acc, s[j]))

\* divs.sort(key=lambda x: x[0])
SortByDate(s) == SortFrom(s, 1, <<>>)

InitDivs(d) ==
    IF "divs" \in d.keys THEN SortByDate(FilterAfter(d.divs, d.today)) ELSE <<>>

InitPeriods(d) == IF "periods" \in d.keys THEN d.periods ELSE 3

\* (expi - today).days / float(periods), for periods # 0
InitTstep(d) == ((d.expi - d.today) * FP) \div InitPeriods(d)

Construct ==
    /\ pc = "new"
    /\ IF InitPeriods(info) = 0
       THEN /\ Raise("ZeroDivisionError", 39)
            /\ UNCHANGED self
       ELSE /\ self' = [today |-> info.today, type |-> info.type,
                        price |-> info.price, strike |-> info.strike,
                        vola |-> info.vola, expi |-> info.expi, rfr |-> info.rfr,
                        divs |-> InitDivs(info), periods |-> InitPeriods(info),
                        tstep |-> InitTstep(info)]
            /\ pc' = "ready"
            /\ UNCHANGED err
    /\ UNCHANGED <<cls, info, ret, calls, prev, locals>>


\* ------------------------------------------------- shared pricer fragments
\* the local name `exercise` after the if/elif on self.type (no else branch)
ResolveExercise(type) ==
    IF type = "call" THEN "exercise_call"
    ELSE IF type = "put" THEN "exercise_put"
    ELSE "unbound"

RECURSIVE SumDivPV(_, _, _, _)
SumDivPV(divs, today, rfr, j) ==
    IF j > Len(divs) THEN 0
    ELSE discount(divs[j][2], (divs[j][1] - today) * FP, rfr)
         + SumDivPV(divs, today, rfr, j + 1)

\* start_div_val: the loop over self.divs
StartDivVal(o) == SumDivPV(o.divs, o.today, o.rfr, 1)

\* the cursor test: (last_div >= 0) and (self.divs[last_div][0] > day)
CursorHit(divs, ld, d) == ld >= 0 /\ divs[ld + 1][1] * FP > d

\* the dividend bookkeeping that closes a step: the pair <<cur_div_val, last_div>>
\* after `day` has been moved back to d
EscrowUpdate(o, cur, ld, d) ==
    LET hit  == CursorHit(o.divs, ld, d)
        cur1 == IF hit THEN cur + o.divs[ld + 1][2] ELSE cur
        ld1  == IF hit THEN ld - 1 ELSE ld
    IN  <<discount(cur1, o.tstep, o.rfr), ld1>>

\* variant: a European node, immediate exercise left out
NodeValueNoExercise(cont_val, exer_val) == Max2(cont_val, 0)

\* variant: no floor at zero
NodeValueNoFloor(cont_val, exer_val) == Max2(cont_val, exer_val)

\* final value of a node: max(bin_val, exer_val, 0)
NodeValue(cont_val, exer_val) == Max3(cont_val, exer_val, 0)

\* the part of value()/pricetree() every step leaves alone
Frame == UNCHANGED <<cls, info, self, ret, calls, prev>>

\* ---------------------------------------------------- BinOption.pricetree
BinSize(periods) == ((periods + 1) * (periods + 2)) \div 2

BinFirstNode(s) == (s * (s + 1)) \div 2

\* variant: the child block taken to start one slot early
BinChildNodeShort(s) == BinFirstNode(s) + s

BinChildNode(s) == ((s + 1) * (s + 2)) \div 2

\* lines 57-74: payoff, lattice parameters, buffer, adjusted price, sweep state
BinStart ==
    /\ pc = "ready"
    /\ cls = "BinOption"
    /\ exercise' = ResolveExercise(self.type)
    /\ IF SqrtFails(self.tstep \div 365)
       THEN /\ Raise("ValueError", 45)
            /\ UNCHANGED <<up, p_up, p_down, p_mid, pricetree, adj_price, day,
                           cur_div_val, last_div, step, i, written, reads, prices>>
       ELSE IF HighPFails(self.vola, self.tstep)
       THEN /\ Raise("ZeroDivisionError", 51)
            /\ up' = high_mult(self.vola, self.tstep)
            /\ UNCHANGED <<p_up, p_down, p_mid, pricetree, adj_price, day,
                           cur_div_val, last_div, step, i, written, reads, prices>>
       ELSE /\ up' = high_mult(self.vola, self.tstep)
            /\ p_up' = high_p(self.rfr, self.vola, self.tstep)
            /\ p_down' = FP - high_p(self.rfr, self.vola, self.tstep)
            /\ p_mid' = 0
            /\ pricetree' = Alloc(BinSize(self.periods))
            /\ adj_price' = self.price - StartDivVal(self)
            /\ day' = self.expi * FP
            /\ cur_div_val' = 0
            /\ last_div' = Len(self.divs) - 1
            /\ step' = self.periods
            /\ i' = 0
            /\ written' = Alloc(BinSize(self.periods))
            /\ reads' = {}
            /\ prices' = Alloc(BinSize(self.periods))
            /\ pc' = IF self.periods >= 0 THEN "bin_node" ELSE "bin_ret"
            /\ UNCHANGED err
    /\ Frame

\* lines 79-90: one pass of the inner loop, node i of the current step
BinNode ==
    /\ pc = "bin_node"
    /\ i <= step
    /\ LET firstNode == BinFirstNode(step)
           childNode == BinChildNode(step)
           price     == Mult(adj_price, Pow(up, 2 * i - step)) + cur_div_val
           kids      == IF step < self.periods
                        THEN {childNode + i, childNode + i + 1} ELSE {}
       IN  IF exercise = "unbound"
           THEN /\ Raise("UnboundLocalError", 83)
                /\ UNCHANGED <<pricetree, i, written, reads, prices>>
           ELSE IF ~(kids \subseteq DOMAIN pricetree)
           THEN /\ Raise("IndexError", 87)
                /\ UNCHANGED <<pricetree, i, written, reads, prices>>
           ELSE IF firstNode + i \notin DOMAIN pricetree
           THEN /\ Raise("IndexError", 90)
                /\ UNCHANGED <<pricetree, i, written, reads, prices>>
           ELSE LET exer_val == ApplyExercise(exercise, price, self.strike)
                    bin_val  ==
                        IF step < self.periods
                        THEN discount(Mult(p_down, pricetree[childNode + i])
                                      + Mult(p_up, pricetree[childNode + i + 1]),
                                      self.tstep, self.rfr)
                        ELSE 0
                IN  /\ pricetree' = [pricetree EXCEPT
                                       ![firstNode + i] = NodeValue(bin_val, exer_val)]
                    /\ written' = [written EXCEPT ![firstNode + i] = @ + 1]
                    /\ prices' = [prices EXCEPT ![firstNode + i] = price]
                    /\ reads' = reads \cup
                          {[step |-> step, idx |-> k, ready |-> written[k] > 0] :
                               k \in kids}
                    /\ i' = i + 1
                    /\ UNCHANGED <<pc, err>>
    /\ UNCHANGED <<exercise, up, p_up, p_down, p_mid, adj_price, day,
                   cur_div_val, last_div, step>>
    /\ Frame

\* variant: the dividend taken into the running value is popped off self.divs
BinEndStepPop ==
    /\ pc = "bin_node"
    /\ i > step
    /\ day' = day - self.tstep
    /\ cur_div_val' = EscrowUpdate(self, cur_div_val, last_div, day - self.tstep)[1]
    /\ last_div' = EscrowUpdate(self, cur_div_val, last_div, day - self.tstep)[2]
    /\ self' = [self EXCEPT !.divs =
                   IF CursorHit(self.divs, last_div, day - self.tstep)
                   THEN SubSeq(@, 1, Len(@) - 1) ELSE @]
    /\ step' = step - 1
    /\ i' = 0
    /\ pc' = IF step - 1 >= 0 THEN "bin_node" ELSE "bin_ret"
    /\ UNCHANGED <<err, exercise, up, p_up, p_down, p_mid, pricetree, adj_price,
                   written, reads, prices>>
    /\ UNCHANGED <<cls, info, ret, calls, prev>>

\* lines 91-96 and the outer loop header: close the step, move to the previous
BinEndStep ==
    /\ pc = "bin_node"
    /\ i > step
    /\ day' = day - self.tstep
    /\ cur_div_val' = EscrowUpdate(self, cur_div_val, last_div, day - self.tstep)[1]
    /\ last_div' = EscrowUpdate(self, cur_div_val, last_div, day - self.tstep)[2]
    /\ step' = step - 1
    /\ i' = 0
    /\ pc' = IF step - 1 >= 0 THEN "bin_node" ELSE "bin_ret"
    /\ UNCHANGED <<err, exercise, up, p_up, p_down, p_mid, pricetree, adj_price,
                   written, reads, prices>>
    /\ Frame

\* lines 99-100: return self.pricetree()[0]
BinValue ==
    /\ pc = "bin_ret"
    /\ IF 0 \in DOMAIN pricetree
       THEN /\ ret' = pricetree[0]
            /\ calls' = calls + 1
            /\ pc' = "done"
            /\ UNCHANGED err
       ELSE /\ Raise("IndexError", 100)
            /\ UNCHANGED <<ret, calls>>
    /\ UNCHANGED <<cls, info, self, prev, locals>>


\* --------------------------------------------------- TrinOption.pricetree
TrinSize(periods) == (periods + 1) * (periods + 1)

TrinFirstNode(s) == s * s

TrinChildNode(s) == (s + 1) * (s + 1)

\* lines 125-143
TrinStart ==
    /\ pc = "ready"
    /\ cls = "TrinOption"
    /\ exercise' = ResolveExercise(self.type)
    /\ IF SqrtFails((2 * self.tstep) \div 365)
       THEN /\ Raise("ValueError", 105)
            /\ UNCHANGED <<up, p_up, p_down, p_mid, pricetree, adj_price, day,
                           cur_div_val, last_div, step, i, written, reads, prices>>
       ELSE IF TriPFails(self.vola, self.tstep)
       THEN /\ Raise("ZeroDivisionError", 114)
            /\ up' = tri_high_mult(self.vola, self.tstep)
            /\ UNCHANGED <<p_up, p_down, p_mid, pricetree, adj_price, day,
                           cur_div_val, last_div, step, i, written, reads, prices>>
       ELSE /\ up' = tri_high_mult(self.vola, self.tstep)
            /\ p_up' = tri_high_p(self.rfr, self.vola, self.tstep)
            /\ p_down' = tri_low_p(self.rfr, self.vola, self.tstep)
            /\ p_mid' = FP - tri_high_p(self.rfr, self.vola, self.tstep)
                           - tri_low_p(self.rfr, self.vola, self.tstep)
            /\ pricetree' = Alloc(TrinSize(self.periods))
            /\ adj_price' = self.price - StartDivVal(self)
            /\ day' = self.expi * FP
            /\ cur_div_val' = 0
            /\ last_div' = Len(self.divs) - 1
            /\ step' = self.periods
            /\ i' = 0
            /\ written' = Alloc(TrinSize(self.periods))
            /\ reads' = {}
            /\ prices' = Alloc(TrinSize(self.periods))
            /\ pc' = IF self.periods >= 0 THEN "trin_node" ELSE "trin_ret"
            /\ UNCHANGED err
    /\ Frame

\* lines 148-159: one pass of the inner loop, node i of the current step
TrinNode ==
    /\ pc = "trin_node"
    /\ i <= 2 * step
    /\ LET firstNode == TrinFirstNode(step)
           childNode == TrinChildNode(step)
           price     == Mult(adj_price, Pow(up, i - step)) + cur_div_val
           kids      == IF step < self.periods
                        THEN {childNode + i, childNode + i + 1, childNode + i + 2}
                        ELSE {}
       IN  IF exercise = "unbound"
           THEN /\ Raise("UnboundLocalError", 152)
                /\ UNCHANGED <<pricetree, i, written, reads, prices>>
           ELSE IF ~(kids \subseteq DOMAIN pricetree)
           THEN /\ Raise("IndexError", 156)
                /\ UNCHANGED <<pricetree, i, written, reads, prices>>
           ELSE IF firstNode + i \notin DOMAIN pricetree
           THEN /\ Raise("IndexError", 159)
                /\ UNCHANGED <<pricetree, i, written, reads, prices>>
           ELSE LET exer_val == ApplyExercise(exercise, price, self.strike)
                    trin_val ==
                        IF step < self.periods
                        THEN discount(Mult(p_down, pricetree[childNode + i])
                                      + Mult(p_mid, pricetree[childNode + i + 1])
                                      + Mult(p_up, pricetree[childNode + i + 2]),
                                      self.tstep, self.rfr)
                        ELSE 0
                IN  /\ pricetree' = [pricetree EXCEPT
                                       ![firstNode + i] = NodeValue(trin_val, exer_val)]
                    /\ written' = [written EXCEPT ![firstNode + i] = @ + 1]
                    /\ prices' = [prices EXCEPT ![firstNode + i] = price]
                    /\ reads' = reads \cup
                          {[step |-> step, idx |-> k, ready |-> written[k] > 0] :
                               k \in kids}
                    /\ i' = i + 1
                    /\ UNCHANGED <<pc, err>>
    /\ UNCHANGED <<exercise, up, p_up, p_down, p_mid, adj_price, day,
                   cur_div_val, last_div, step>>
    /\ Frame

\* lines 160-165 and the outer loop header
TrinEndStep ==
    /\ pc = "trin_node"
    /\ i > 2 * step
    /\ day' = day - self.tstep
    /\ cur_div_val' = EscrowUpdate(self, cur_div_val, last_div, day - self.tstep)[1]
    /\ last_div' = EscrowUpdate(self, cur_div_val, last_div, day - self.tstep)[2]
    /\ step' = step - 1
    /\ i' = 0
    /\ pc' = IF step - 1 >= 0 THEN "trin_node" ELSE "trin_ret"
    /\ UNCHANGED <<err, exercise, up, p_up, p_down, p_mid, pricetree, adj_price,
                   written, reads, prices>>
    /\ Frame

\* lines 168-169: return self.pricetree()[0]
TrinValue ==
    /\ pc = "trin_ret"
    /\ IF 0 \in DOMAIN pricetree
       THEN /\ ret' = pricetree[0]
            /\ calls' = calls + 1
            /\ pc' = "done"
            /\ UNCHANGED err
       ELSE /\ Raise("IndexError", 169)
            /\ UNCHANGED <<ret, calls>>
    /\ UNCHANGED <<cls, info, self, prev, locals>>

\* ------------------------------------------------------------- the caller
\* the caller keeps the returned number and calls value() on the same object
Revalue ==
    /\ pc = "done"
    /\ calls < MaxCalls
    /\ prev' = [how |-> "same", self |-> self, ret |-> ret]
    /\ pc' = "ready"
    /\ UNCHANGED <<cls, info, self, err, ret, calls, locals>>

\* the caller keeps the returned number and builds a second contract from the
\* same dictionary with one more dividend in its list
AddDividend ==
    /\ pc = "done"
    /\ calls < MaxCalls
    /\ \E d \in ExtraDivs :
          info' = [info EXCEPT !.divs = Append(@, d), !.keys = @ \cup {"divs"}]
    /\ prev' = [how |-> "added", self |-> self, ret |-> ret]
    /\ pc' = "new"
    /\ UNCHANGED <<cls, self, err, ret, calls, locals>>

Next ==
    \/ Construct
    \/ BinStart
    \/ BinNode
    \/ BinEndStep
    \/ BinValue
    \/ TrinStart
    \/ TrinNode
    \/ TrinEndStep
    \/ TrinValue
    \/ Revalue
    \/ AddDividend

Spec == Init /\ [][Next]_vars

TypeOK ==
    /\ pc \in {"new", "ready", "bin_node", "trin_node", "bin_ret", "trin_ret",
               "done", "error"}
    /\ calls \in 0..MaxCalls


\* ================================================================== claims
\* the lattice as the specification lays it out
IsBin == cls = "BinOption"

SpecWidth(s) == IF IsBin THEN s + 1 ELSE 2 * s + 1

SpecOffset(s, n) == IF IsBin THEN (s * (s + 1)) \div 2 + n ELSE s * s + n

SpecSize(periods) ==
    IF IsBin THEN ((periods + 1) * (periods + 2)) \div 2
    ELSE (periods + 1) * (periods + 1)

SpecNodes(periods) == {sn \in (0..periods) \X (0..(2 * periods)) : sn[2] < SpecWidth(sn[1])}

\* the locals belong to a sweep of the current object
InSweep == pc \in {"bin_node", "trin_node", "bin_ret", "trin_ret", "done"}

SweepOver == pc \in {"bin_ret", "trin_ret", "done"}

\* node <<s, n>> has been computed by the sweep in progress
Computed(s, n) == SweepOver \/ s > step \/ (s = step /\ n < i)

\* continuationVal of node <<s, n>>, from the values held for its children
ContinuationVal(s, n) ==
    IF s = self.periods THEN 0
    ELSE IF IsBin
    THEN discount(Mult(p_down, pricetree[SpecOffset(s + 1, n)])
                  + Mult(p_up, pricetree[SpecOffset(s + 1, n + 1)]),
                  self.tstep, self.rfr)
    ELSE discount(Mult(p_down, pricetree[SpecOffset(s + 1, n)])
                  + Mult(p_mid, pricetree[SpecOffset(s + 1, n + 1)])
                  + Mult(p_up, pricetree[SpecOffset(s + 1, n + 2)]),
                  self.tstep, self.rfr)

\* exerciseVal of node <<s, n>>: the payoff of its underlying price
ExerciseVal(s, n) ==
    IF self.type = "call" THEN prices[SpecOffset(s, n)] - self.strike
    ELSE self.strike - prices[SpecOffset(s, n)]

\* the raw lattice price of node <<s, n>>
LatticePrice(s, n) ==
    Mult(adj_price, Pow(up, IF IsBin THEN 2 * n - s ELSE n - s))

Payoff(stock) == IF self.type = "call" THEN stock - self.strike ELSE self.strike - stock

\* the hand computation of a one-period binomial contract without dividends
OneStepRoot ==
    Max3(discount(Mult(p_down, Max2(Payoff(Mult(self.price, Pow(up, -1))), 0))
                  + Mult(p_up, Max2(Payoff(Mult(self.price, Pow(up, 1))), 0)),
                  self.tstep, self.rfr),
         Payoff(self.price), 0)

\* C1: every computed node holds max(continuationVal, exerciseVal, 0), where the
\* continuation is 0 at the last step and otherwise the discounted weighted value
\* of the node's children, and the exercise value is the payoff of the node's
\* underlying price (lattice price plus the running dividend value); a one-period
\* binomial contract without dividends returns the hand-computed root.
C1_NodeIsMaxOfThree ==
    InSweep =>
       /\ \A sn \in SpecNodes(self.periods) :
             Computed(sn[1], sn[2]) =>
                /\ pricetree[SpecOffset(sn[1], sn[2])]
                     = Max3(ContinuationVal(sn[1], sn[2]), ExerciseVal(sn[1], sn[2]), 0)
                /\ (~SweepOver /\ sn[1] = step) =>
                      prices[SpecOffset(sn[1], sn[2])]
                        = LatticePrice(sn[1], sn[2]) + cur_div_val
       /\ (pc = "done" /\ IsBin /\ self.periods = 1 /\ self.divs = <<>>) =>
             ret = OneStepRoot

\* a one-period binomial contract without dividends whose returned root is its
\* continuation value, above both the exercise value and zero
C1_Witness ==
    /\ pc = "done" /\ IsBin /\ self.periods = 1 /\ self.divs = <<>>
    /\ ret > Max2(Payoff(self.price), 0)

\* C2: every node value computed by the sweep is >= 0, and so is the value
\* that value() returns.
C2_NonNegative ==
    InSweep =>
       /\ \A sn \in SpecNodes(self.periods) :
             Computed(sn[1], sn[2]) => pricetree[SpecOffset(sn[1], sn[2])] >= 0
       /\ pc = "done" => ret >= 0

\* a finished sweep in which the floor decided a node: both its continuation
\* and its exercise value are negative, and it holds 0
C2_Witness ==
    /\ pc = "done"
    /\ \E sn \in SpecNodes(self.periods) :
          /\ ContinuationVal(sn[1], sn[2]) < 0
          /\ ExerciseVal(sn[1], sn[2]) < 0
          /\ pricetree[SpecOffset(sn[1], sn[2])] = 0

\* the dividends are in ascending order of date, no date twice
AscendingUnique(divs) == \A j \in 1..(Len(divs) - 1) : divs[j][1] < divs[j + 1][1]

\* the date of step s, in fixed-point days
StepDate(s) == self.expi * FP - (self.periods - s) * self.tstep

\* C3: while the nodes of step s are computed, the running dividend value holds
\* every dividend dated strictly after step s's date and not after expiry.
C3_EscrowHoldsAllUnpaid ==
    (pc \in {"bin_node", "trin_node"} /\ AscendingUnique(self.divs)) =>
       {k \in 1..Len(self.divs) : k > last_div + 1}
         = {k \in 1..Len(self.divs) :
               self.divs[k][1] * FP > StepDate(step) /\ self.divs[k][1] <= self.expi}

\* C4: a contract rebuilt with one more positive dividend dated strictly between
\* today and expiry is worth no more if it is a call and no less if it is a put.
C4_DividendEffect ==
    (pc = "done" /\ prev.how = "added") =>
       /\ self.type = "call" => ret <= prev.ret
       /\ self.type = "put" => ret >= prev.ret

\* C5: a call with volatility 0 and no dividends is priced without failure.
C5_ZeroVolatilityPrices ==
    (self.vola = 0 /\ self.type = "call" /\ self.divs = <<>> /\ self.periods >= 1)
       => pc # "error"

\* C6: once value() has been entered on a contract whose type is neither call
\* nor put, the run has ended in InvalidContractType (nothing derived, no node
\* computed, no price returned).
C6_InvalidTypeRaises ==
    (self.type \notin {"call", "put"} /\ self.periods >= 1 /\ self.vola > 0
       /\ pc \notin {"new", "ready"})
       => (pc = "error" /\ err.name = "InvalidContractType")

\* C7: with periods <= 0 the constructor fails with InvalidPeriodCount, so no
\* object exists and no pricer runs.
C7_NonPositivePeriodsRejected ==
    (InitPeriods(info) <= 0 /\ pc # "new")
       => (pc = "error" /\ err.name = "InvalidPeriodCount" /\ err.line = 39)

Count(s, x) == Cardinality({j \in 1..Len(s) : s[j] = x})

Elems(s) == {s[j] : j \in 1..Len(s)}

\* the object was built from the dictionary now in `info`
Built == pc \notin {"new", "error"} \/ (pc = "error" /\ err.line # 39)

\* C8: the constructed dividends are the input pairs dated strictly after today,
\* each as often as the input holds it, in ascending order of date; without a
\* dividends key the list is empty.
C8_DividendsFilteredSorted ==
    Built =>
       /\ \A j \in 1..(Len(self.divs) - 1) : self.divs[j][1] <= self.divs[j + 1][1]
       /\ \A x \in Elems(self.divs) \cup Elems(info.divs) :
             Count(self.divs, x)
               = IF x[1] > info.today /\ "divs" \in info.keys
                 THEN Count(info.divs, x) ELSE 0
       /\ "divs" \notin info.keys => self.divs = <<>>

\* a contract built from three input dividends out of date order, one of them
\* dated on or before today
C8_Witness ==
    /\ pc = "ready"
    /\ Len(info.divs) = 3
    /\ Len(self.divs) = 2
    /\ info.divs[1][1] > info.divs[3][1]
    /\ info.divs[3][1] > info.today

\* C9: the steps of value() leave the contract's attributes unchanged, and a
\* second value() call on the same object returns what the first returned.
C9_ValueIsPure ==
    [][ /\ (pc \in {"ready", "bin_node", "trin_node", "bin_ret", "trin_ret"})
             => self' = self
        /\ (pc' = "done" /\ pc # "done" /\ prev.how = "same")
             => (ret' = prev.ret /\ self' = prev.self) ]_vars

\* a second call on a contract with dividends has returned
C9_Witness ==
    /\ pc = "done" /\ calls = 2 /\ prev.how = "same"
    /\ Len(self.divs) >= 1
    /\ ret > 0

\* the slots of step s's block
SpecBlock(s) == {SpecOffset(s, n) : n \in 0..(SpecWidth(s) - 1)}

\* C10: the buffer has the size of the whole lattice; the nodes computed so far
\* are exactly the slots stored, each once, node n of step s at the indexed
\* offset; every child slot read lies in the buffer, in the block of the next
\* step, and had been stored before.
C10_SlotsAndReads ==
    (InSweep /\ self.periods >= 1) =>
       /\ DOMAIN pricetree = 0..(SpecSize(self.periods) - 1)
       /\ \A k \in DOMAIN written :
             written[k] = IF \E sn \in SpecNodes(self.periods) :
                                 k = SpecOffset(sn[1], sn[2]) /\ Computed(sn[1], sn[2])
                          THEN 1 ELSE 0
       /\ \A a, b \in SpecNodes(self.periods) :
             SpecOffset(a[1], a[2]) = SpecOffset(b[1], b[2]) => a = b
       /\ SweepOver => \A k \in DOMAIN written : written[k] = 1
       /\ \A r \in reads :
             /\ r.idx \in DOMAIN pricetree
             /\ r.idx \in SpecBlock(r.step + 1)
             /\ r.ready

\* a finished trinomial sweep over at least two periods, with child reads
C10_Witness ==
    /\ pc = "trin_ret"
    /\ self.periods >= 2
    /\ Cardinality(reads) >= 3

=============================================================================
